---- MODULE Spec2Model ----
(***************************************************************************)
(* Model of src/src/services/request/index.ts: the axios wrapper `Request` *)
(* with its process-wide CacheManager and DebounceManager.                 *)
(*                                                                         *)
(* One call of request() is one element of CallIds.  The JavaScript run    *)
(* time is single threaded: every action below is one macrotask (a call    *)
(* made by the application, the expiry of a timer, the settlement of a     *)
(* transport call) run to completion together with the promise reactions   *)
(* it queues.                                                              *)
(***************************************************************************)
EXTENDS Integers, Sequences, FiniteSets, TLC

\* ---------------------------------------------------------------- bounds
MaxCalls == 3      \* calls of request() in the cache and debounce runs
MaxIcptCalls == 2  \* calls of request() in the interceptor runs
MaxMixedCalls == 2 \* calls of request() in the mixed, key and shortcut runs

CallIds == 1..(IF MaxCalls > MaxIcptCalls THEN MaxCalls ELSE MaxIcptCalls)

\* ---------------------------------------------------------------- values
\* Every JavaScript value the model handles is a string.  "undefined" is
\* the JavaScript value undefined.
Undefined == "undefined"
TransportError == "TE"      \* the reason the transport rejects with
RequestThrown == "RQE"      \* what a throwing requestInterceptor throws
ResponseThrown == "RSE"     \* what a throwing responseInterceptor throws
HandlerReturn == "V"        \* what an error handler returns
HandlerThrown == "H"        \* what an error handler throws
Datas == {"d1", "d2"}       \* response.data values of the transport

VARIABLES
  cache,       \* CacheManager.cache : Map<string, unknown>
  timers,      \* DebounceManager.timers : Map<string, Timeout>; a handle is
               \* the id of the call whose setTimeout created it
  timerState,  \* run time: state of the timer each call created
  remaining,   \* run time: ticks left before the timer of a call may fire
  config,      \* the config each call was made with
  pc,          \* where each call is
  promise,     \* the promise request() returned for each call
  trace,       \* what ran for each call, in order: interceptors, handlers,
               \* the transport, the activity indicator
  waited,      \* history: ticks since a pending debounced call was
               \* registered, counted up to its delay
  cancelReq,   \* history: what asked for the pending timer of a call to go
  mustMiss     \* history: keys cached at the last clearCache() and not
               \* requested with cache enabled since

vars == <<cache, timers, timerState, remaining, config, pc, promise, trace,
          waited, cancelReq, mustMiss>>

\* ---------------------------------------------------------------- types
\* interface RequestInterceptors: each field is a function of the caller,
\* named here by how it behaves; "absent" is a field left out.
NoInterceptors ==
  [requestInterceptor |-> "absent", requestInterceptorCatch |-> "absent",
   responseInterceptor |-> "absent", responseInterceptorCatch |-> "absent"]

\* interface RequestConfig.  method "" and cacheKey "" are fields left out
\* (or empty, which `||` treats alike); debounce 0 is no debounce.  A config
\* built here carries neither params nor data.
RequestConfig(method, url, cacheKey, cacheFlag, debounce, interceptors) ==
  [method |-> method, url |-> url, params |-> Undefined, data |-> Undefined,
   cacheKey |-> cacheKey, cache |-> cacheFlag,
   debounce |-> debounce, interceptors |-> interceptors]

NoConfig == RequestConfig("", "", "", FALSE, 0, NoInterceptors)

Pending == [state |-> "pending", value |-> Undefined]
Fulfilled(v) == [state |-> "fulfilled", value |-> v]
Rejected(v) == [state |-> "rejected", value |-> v]

Ev(op, arg) == [op |-> op, arg |-> arg]

\* ------------------------------------------------------- RequestUtils
\* The values of params and data are named by their JavaScript literals:
\* undefined, null, 0, false, '' and the objects {}, {q:'1'}, {a:'1'}.
Falsy(v) == v \in {Undefined, "null", "0", "false", "''"}

\* value || {}
OrEmptyObject(v) == IF Falsy(v) THEN "{}" ELSE v

\* JSON.stringify(value): the JSON text of the value; null, 0 and false
\* print as their literals.
JSON_stringify(v) ==
  CASE v = "{}" -> "{}"
    [] v = "{q:'1'}" -> "{\"q\":\"1\"}"
    [] v = "{a:'1'}" -> "{\"a\":\"1\"}"
    [] v = "''" -> "\"\""
    [] OTHER -> v

\* `${method || 'GET'}:${url || ''}:${JSON.stringify(params || {})}:
\*  ${JSON.stringify(data || {})}`
generateCacheKey(cfg) ==
  (IF cfg.method = "" THEN "GET" ELSE cfg.method) \o ":" \o cfg.url
     \o ":" \o JSON_stringify(OrEmptyObject(cfg.params))
     \o ":" \o JSON_stringify(OrEmptyObject(cfg.data))

\* const cacheKey = config.cacheKey || RequestUtils.generateCacheKey(config)
EffectiveKey(cfg) ==
  IF cfg.cacheKey # "" THEN cfg.cacheKey ELSE generateCacheKey(cfg)

\* ------------------------------------------------------- CacheManager
\* The Map is a function whose domain is the set of keys it has.
CacheManager_has(m, key) == key \in DOMAIN m

CacheManager_get(m, key) == IF key \in DOMAIN m THEN m[key] ELSE Undefined

CacheManager_set(m, key, value) ==
  [k \in DOMAIN m \cup {key} |-> IF k = key THEN value ELSE m[k]]

CacheManager_delete(m, key) == [k \in DOMAIN m \ {key} |-> m[k]]

CacheManager_clear(m) == [k \in {} |-> Undefined]

\* ------------------------------------------------------- the run time
\* setTimeout(callback, delay): a new timer, which may fire once `delay`
\* ticks have passed.
setTimeout(ts, h) == [ts EXCEPT ![h] = "scheduled"]

\* clearTimeout(handle): a pending timer never fires; a fired or cancelled
\* one is left as it is.
clearTimeout_evenFired(ts, h) ==
  IF ts[h] \in {"scheduled", "fired"} THEN [ts EXCEPT ![h] = "cancelled"] ELSE ts

clearTimeout(ts, h) ==
  IF ts[h] = "scheduled" THEN [ts EXCEPT ![h] = "cancelled"] ELSE ts

\* ------------------------------------------------------- DebounceManager
\* Each operation maps the pair (timers map, run-time timer states) to the
\* pair after it.
DebounceManager_clear_keepsTimer(tm, ts, key) ==
  IF key \in DOMAIN tm
    THEN [timers |-> [k \in DOMAIN tm \ {key} |-> tm[k]], timerState |-> ts]
    ELSE [timers |-> tm, timerState |-> ts]

\* The same with the timer of every key cleared, not only that of `key`.
DebounceManager_clear_anyKey(tm, ts, key) ==
  [timers |-> [k \in DOMAIN tm \ {key} |-> tm[k]],
   timerState |-> [h \in DOMAIN ts |->
                     IF \E k \in DOMAIN tm : tm[k] = h
                       THEN clearTimeout(ts, h)[h] ELSE ts[h]]]

DebounceManager_clear(tm, ts, key) ==
  IF key \in DOMAIN tm
    THEN [timers |-> [k \in DOMAIN tm \ {key} |-> tm[k]],
          timerState |-> clearTimeout(ts, tm[key])]
    ELSE [timers |-> tm, timerState |-> ts]

DebounceManager_set_noClear(tm, ts, key, timer) ==
  [timers |-> [k \in DOMAIN tm \cup {key} |-> IF k = key THEN timer ELSE tm[k]],
   timerState |-> ts]

DebounceManager_set(tm, ts, key, timer) ==
  LET r == DebounceManager_clear(tm, ts, key)
  IN [timers |-> [k \in DOMAIN r.timers \cup {key} |->
                    IF k = key THEN timer ELSE r.timers[k]],
      timerState |-> r.timerState]

DebounceManager_clearAll_keepsTimers(tm, ts) ==
  [timers |-> [k \in {} |-> 0], timerState |-> ts]

DebounceManager_clearAll(tm, ts) ==
  [timers |-> [k \in {} |-> 0],
   timerState |-> [h \in DOMAIN ts |->
                     IF \E k \in DOMAIN tm : tm[k] = h
                       THEN clearTimeout(ts, h)[h] ELSE ts[h]]]

\* ------------------------------------------------------- interceptors
\* An error handler of the caller, by kind, applied to `arg`:
\*   "returns"    returns HandlerReturn
\*   "throws"     throws HandlerThrown
\*   "echo"       returns its argument
\*   "throwsOnce" throws HandlerThrown, but returns HandlerReturn when it
\*                is handed HandlerThrown itself
HandlerKinds == {"returns", "throws", "echo", "throwsOnce"}

Handler(kind, arg) ==
  CASE kind = "returns" -> [thrown |-> FALSE, val |-> HandlerReturn]
    [] kind = "throws" -> [thrown |-> TRUE, val |-> HandlerThrown]
    [] kind = "echo" -> [thrown |-> FALSE, val |-> arg]
    [] kind = "throwsOnce" ->
         IF arg = HandlerThrown
           THEN [thrown |-> FALSE, val |-> HandlerReturn]
           ELSE [thrown |-> TRUE, val |-> HandlerThrown]

\* A responseInterceptor of the caller that returns, by kind:
\*   "maps"      returns a value made from the response
\*   "undefined" returns undefined
Transform(kind, response) ==
  CASE kind = "maps" -> (IF response = "d1" THEN "m1" ELSE "m2")
    [] kind = "undefined" -> Undefined

\* ------------------------------------------------------- Request.sendRequest
\* The synchronous part of sendRequest, the executor of its promise: where
\* the call is afterwards, its promise, and what ran.
sendRequest_handlerDecides(cfg) ==
  LET i == cfg.interceptors
      ran == IF i.requestInterceptor = "absent" THEN <<>>
             ELSE <<Ev("requestInterceptor", "config")>>
  IN IF i.requestInterceptor = "throws"
       THEN IF i.requestInterceptorCatch # "absent"
              THEN LET h == Handler(i.requestInterceptorCatch, RequestThrown)
                   IN [pc |-> "done",
                       trace |-> ran \o <<Ev("requestInterceptorCatch", RequestThrown)>>,
                       promise |-> Rejected(h.val)]
              ELSE [pc |-> "done", trace |-> ran, promise |-> Rejected(RequestThrown)]
       ELSE [pc |-> "transport",
             trace |-> ran \o <<Ev("instance.request",
                                   IF i.requestInterceptor = "absent"
                                     THEN "config" ELSE "processedConfig"),
                                Ev("NProgress.start", "")>>,
             promise |-> Pending]

\* The same with the activity indicator started by the wrapper itself, ahead
\* of the caller's requestInterceptor.
sendRequest_startsFirst(cfg) ==
  LET i == cfg.interceptors
      ran == <<Ev("NProgress.start", "")>>
             \o (IF i.requestInterceptor = "absent" THEN <<>>
                 ELSE <<Ev("requestInterceptor", "config")>>)
  IN IF i.requestInterceptor = "throws"
       THEN IF i.requestInterceptorCatch # "absent"
              THEN LET h == Handler(i.requestInterceptorCatch, RequestThrown)
                   IN [pc |-> "done",
                       trace |-> ran \o <<Ev("requestInterceptorCatch", RequestThrown)>>,
                       promise |-> Rejected(IF h.thrown THEN h.val ELSE RequestThrown)]
              ELSE [pc |-> "done", trace |-> ran, promise |-> Rejected(RequestThrown)]
       ELSE [pc |-> "transport",
             trace |-> ran \o <<Ev("instance.request",
                                   IF i.requestInterceptor = "absent"
                                     THEN "config" ELSE "processedConfig")>>,
             promise |-> Pending]

sendRequest(cfg) ==
  LET i == cfg.interceptors
      ran == IF i.requestInterceptor = "absent" THEN <<>>
             ELSE <<Ev("requestInterceptor", "config")>>
  IN IF i.requestInterceptor = "throws"
       THEN IF i.requestInterceptorCatch # "absent"
              THEN LET h == Handler(i.requestInterceptorCatch, RequestThrown)
                   IN [pc |-> "done",
                       trace |-> ran \o <<Ev("requestInterceptorCatch", RequestThrown)>>,
                       \* a throw of the handler leaves the executor and
                       \* rejects the promise with what was thrown
                       promise |-> Rejected(IF h.thrown THEN h.val ELSE RequestThrown)]
              ELSE [pc |-> "done", trace |-> ran, promise |-> Rejected(RequestThrown)]
       ELSE [pc |-> "transport",
             trace |-> ran \o <<Ev("instance.request",
                                   IF i.requestInterceptor = "absent"
                                     THEN "config" ELSE "processedConfig"),
                                Ev("NProgress.start", "")>>,
             promise |-> Pending]

\* The .then callback of sendRequest, handed the transport's response:
\*   "resolve"  the call resolves with `value` (after the cache write)
\*   "reject"   the callback called reject(value) and returned
\*   "throw"    the callback threw `value`
thenCallback(cfg, response) ==
  LET i == cfg.interceptors
      ran == <<Ev("responseInterceptor", response)>>
  IN IF i.responseInterceptor = "absent"
       THEN [outcome |-> "resolve", value |-> response, trace |-> <<>>]
     ELSE IF i.responseInterceptor = "throws"
       THEN IF i.responseInterceptorCatch # "absent"
              THEN LET h == Handler(i.responseInterceptorCatch, ResponseThrown)
                       t == ran \o <<Ev("responseInterceptorCatch", ResponseThrown)>>
                   IN IF h.thrown
                        THEN [outcome |-> "throw", value |-> h.val, trace |-> t]
                        ELSE [outcome |-> "reject", value |-> ResponseThrown, trace |-> t]
              ELSE [outcome |-> "reject", value |-> ResponseThrown, trace |-> ran]
     ELSE [outcome |-> "resolve",
           value |-> Transform(i.responseInterceptor, response),
           trace |-> ran]

\* The .catch callback of sendRequest, handed the transport's error or what
\* the .then callback threw.
catchCallback_keepsError(cfg, error) ==
  LET i == cfg.interceptors
  IN IF i.responseInterceptorCatch # "absent"
       THEN [promise |-> Rejected(error),
             trace |-> <<Ev("responseInterceptorCatch", error)>>]
       ELSE [promise |-> Rejected(error), trace |-> <<>>]

\* The same with the handler's outcome taken as the call's result.
catchCallback_recovers(cfg, error) ==
  LET i == cfg.interceptors
  IN IF i.responseInterceptorCatch # "absent"
       THEN LET h == Handler(i.responseInterceptorCatch, error)
            IN [promise |-> Fulfilled(h.val),
                trace |-> <<Ev("responseInterceptorCatch", error)>>]
       ELSE [promise |-> Rejected(error), trace |-> <<>>]

catchCallback(cfg, error) ==
  LET i == cfg.interceptors
  IN IF i.responseInterceptorCatch # "absent"
       THEN LET h == Handler(i.responseInterceptorCatch, error)
            IN [promise |-> Rejected(h.val),
                trace |-> <<Ev("responseInterceptorCatch", error)>>]
       ELSE [promise |-> Rejected(error), trace |-> <<>>]

\* ------------------------------------------------------- Request.request
\* if (config.cache && CacheManager.has(cacheKey)) {
\*   const cachedValue = CacheManager.get(cacheKey)
\*   if (cachedValue !== undefined) return Promise.resolve(cachedValue) }
servedFromCache_ignoresFlag(cfg, m, cacheKey) ==
  /\ CacheManager_has(m, cacheKey)
  /\ CacheManager_get(m, cacheKey) # Undefined

servedFromCache(cfg, m, cacheKey) ==
  /\ cfg.cache
  /\ CacheManager_has(m, cacheKey)
  /\ CacheManager_get(m, cacheKey) # Undefined

\* The delay request() hands to setTimeout.
timerDelay_none(cfg) == 0

timerDelay(cfg) == cfg.debounce

\* The pending timers registered under `key`, as the run time sees them.
PendingUnder(key) ==
  {o \in CallIds : timerState[o] = "scheduled" /\ EffectiveKey(config[o]) = key}

\* The run time keeps no time for a timer that is no longer pending, and
\* neither does the history.
WhilePending(ts, f) == [h \in CallIds |-> IF ts[h] = "scheduled" THEN f[h] ELSE 0]

Init ==
  /\ cache = [k \in {} |-> Undefined]
  /\ timers = [k \in {} |-> 0]
  /\ timerState = [c \in CallIds |-> "none"]
  /\ remaining = [c \in CallIds |-> 0]
  /\ config = [c \in CallIds |-> NoConfig]
  /\ pc = [c \in CallIds |-> "unissued"]
  /\ promise = [c \in CallIds |-> Pending]
  /\ trace = [c \in CallIds |-> <<>>]
  /\ waited = [c \in CallIds |-> 0]
  /\ cancelReq = [c \in CallIds |-> "none"]
  /\ mustMiss = {}

\* request(config), the n-th call at most; c is the call it becomes.
request(cfg, n) ==
  \E c \in 1..n :
    /\ pc[c] = "unissued"
    /\ \A o \in 1..(c - 1) : pc[o] # "unissued"
    /\ LET cacheKey == EffectiveKey(cfg)
       IN /\ config' = [config EXCEPT ![c] = cfg]
          /\ mustMiss' = IF cfg.cache THEN mustMiss \ {cacheKey} ELSE mustMiss
          /\ IF servedFromCache(cfg, cache, cacheKey)
               THEN /\ pc' = [pc EXCEPT ![c] = "done"]
                    /\ promise' = [promise EXCEPT
                                     ![c] = Fulfilled(CacheManager_get(cache, cacheKey))]
                    /\ UNCHANGED <<timers, timerState, remaining, trace, waited,
                                   cancelReq>>
             ELSE IF cfg.debounce # 0
               THEN LET r == DebounceManager_set(timers, setTimeout(timerState, c),
                                                 cacheKey, c)
                    IN /\ timers' = r.timers
                       /\ timerState' = r.timerState
                       /\ remaining' = WhilePending(r.timerState,
                                         [remaining EXCEPT ![c] = timerDelay(cfg)])
                       /\ waited' = WhilePending(r.timerState,
                                      [waited EXCEPT ![c] = 0])
                       /\ cancelReq' = [o \in CallIds |->
                                          IF o \in PendingUnder(cacheKey) /\ cancelReq[o] = "none"
                                            THEN "request" ELSE cancelReq[o]]
                       /\ pc' = [pc EXCEPT ![c] = "debouncing"]
                       /\ UNCHANGED <<promise, trace>>
             ELSE LET r == sendRequest(cfg)
                  IN /\ pc' = [pc EXCEPT ![c] = r.pc]
                     /\ promise' = [promise EXCEPT ![c] = r.promise]
                     /\ trace' = [trace EXCEPT ![c] = r.trace]
                     /\ UNCHANGED <<timers, timerState, remaining, waited, cancelReq>>
    /\ UNCHANGED cache

\* ------------------------------------------------------- shortcuts
\* { method: M, ...config }: a method the config carries wins.
WithMethod_configWins(cfg, method) ==
  IF cfg.method # "" THEN cfg ELSE [cfg EXCEPT !.method = method]

\* { ...config, method: M }
WithMethod(cfg, method) == [cfg EXCEPT !.method = method]

get(cfg, n) == request(WithMethod(cfg, "GET"), n)

post(cfg, n) == request(WithMethod(cfg, "POST"), n)

put(cfg, n) == request(WithMethod(cfg, "PUT"), n)

delete(cfg, n) == request(WithMethod(cfg, "DELETE"), n)

patch(cfg, n) == request(WithMethod(cfg, "PATCH"), n)

\* The timer of call c expires: its callback runs
\* this.sendRequest(config, cacheKey).then(resolve).catch(reject).
\* The entry of DebounceManager.timers stays where it is.
TimerFire(c) ==
  /\ timerState[c] = "scheduled"
  /\ remaining[c] = 0
  /\ timerState' = [timerState EXCEPT ![c] = "fired"]
  /\ remaining' = WhilePending(timerState', remaining)
  /\ waited' = WhilePending(timerState', waited)
  /\ LET r == sendRequest(config[c])
     IN /\ pc' = [pc EXCEPT ![c] = r.pc]
        /\ promise' = [promise EXCEPT ![c] = r.promise]
        /\ trace' = [trace EXCEPT ![c] = r.trace]
  /\ UNCHANGED <<cache, timers, config, cancelReq, mustMiss>>

\* The same with the cache written as soon as the response arrives, ahead of
\* the caller's responseInterceptor.
TransportSucceeds_cachesFirst(c, data) ==
  /\ pc[c] = "transport"
  /\ LET cfg == config[c]
         t == thenCallback(cfg, data)
         k == catchCallback(cfg, t.value)
         ran == trace[c] \o <<Ev("transport.fulfilled", data), Ev("NProgress.done", "")>>
                         \o t.trace
     IN /\ pc' = [pc EXCEPT ![c] = "done"]
        /\ cache' = IF cfg.cache
                      THEN CacheManager_set(cache, EffectiveKey(cfg), data)
                      ELSE cache
        /\ promise' = [promise EXCEPT
                         ![c] = CASE t.outcome = "resolve" -> Fulfilled(t.value)
                                  [] t.outcome = "reject" -> Rejected(t.value)
                                  [] t.outcome = "throw" -> k.promise]
        /\ trace' = [trace EXCEPT
                       ![c] = IF t.outcome = "throw" THEN ran \o k.trace ELSE ran]
  /\ UNCHANGED <<timers, timerState, remaining, config, waited, cancelReq,
                 mustMiss>>

\* The transport call of c succeeds with response.data = data: the global
\* response interceptor, then the .then callback and, if that throws, the
\* .catch callback.
TransportSucceeds(c, data) ==
  /\ pc[c] = "transport"
  /\ LET cfg == config[c]
         t == thenCallback(cfg, data)
         k == catchCallback(cfg, t.value)
         ran == trace[c] \o <<Ev("transport.fulfilled", data), Ev("NProgress.done", "")>>
                         \o t.trace
     IN /\ pc' = [pc EXCEPT ![c] = "done"]
        /\ CASE t.outcome = "resolve" ->
                  /\ cache' = IF cfg.cache
                                THEN CacheManager_set(cache, EffectiveKey(cfg), t.value)
                                ELSE cache
                  /\ promise' = [promise EXCEPT ![c] = Fulfilled(t.value)]
                  /\ trace' = [trace EXCEPT ![c] = ran]
             [] t.outcome = "reject" ->
                  /\ promise' = [promise EXCEPT ![c] = Rejected(t.value)]
                  /\ trace' = [trace EXCEPT ![c] = ran]
                  /\ UNCHANGED cache
             [] t.outcome = "throw" ->
                  /\ promise' = [promise EXCEPT ![c] = k.promise]
                  /\ trace' = [trace EXCEPT ![c] = ran \o k.trace]
                  /\ UNCHANGED cache
  /\ UNCHANGED <<timers, timerState, remaining, config, waited, cancelReq,
                 mustMiss>>

\* The transport call of c fails: the global response error interceptor,
\* then the .catch callback.
TransportFails(c) ==
  /\ pc[c] = "transport"
  /\ LET k == catchCallback(config[c], TransportError)
     IN /\ pc' = [pc EXCEPT ![c] = "done"]
        /\ promise' = [promise EXCEPT ![c] = k.promise]
        /\ trace' = [trace EXCEPT
                       ![c] = trace[c] \o <<Ev("transport.rejected", TransportError),
                                            Ev("NProgress.done", "")>> \o k.trace]
  /\ UNCHANGED <<cache, timers, timerState, remaining, config, waited,
                 cancelReq, mustMiss>>

\* clearCache(key?): key Undefined is a call without a key; `if (key)` is
\* false for it and for the empty string.
clearCache(key) ==
  /\ cache' = IF key # Undefined /\ key # ""
                THEN CacheManager_delete(cache, key)
                ELSE CacheManager_clear(cache)
  /\ mustMiss' = IF key # Undefined /\ key # ""
                   THEN mustMiss ELSE mustMiss \cup DOMAIN cache
  /\ UNCHANGED <<timers, timerState, remaining, config, pc, promise, trace,
                 waited, cancelReq>>

clearDebounce(key) ==
  /\ LET r == DebounceManager_clear(timers, timerState, key)
     IN /\ timers' = r.timers
        /\ timerState' = r.timerState
        /\ remaining' = WhilePending(r.timerState, remaining)
        /\ waited' = WhilePending(r.timerState, waited)
  /\ cancelReq' = [o \in CallIds |->
                     IF o \in PendingUnder(key) /\ cancelReq[o] = "none"
                       THEN "clear" ELSE cancelReq[o]]
  /\ UNCHANGED <<cache, config, pc, promise, trace, mustMiss>>

clearAllDebounce ==
  /\ LET r == DebounceManager_clearAll(timers, timerState)
     IN /\ timers' = r.timers
        /\ timerState' = r.timerState
        /\ remaining' = WhilePending(r.timerState, remaining)
        /\ waited' = WhilePending(r.timerState, waited)
  /\ cancelReq' = [o \in CallIds |->
                     IF timerState[o] = "scheduled" /\ cancelReq[o] = "none"
                       THEN "clear" ELSE cancelReq[o]]
  /\ UNCHANGED <<cache, config, pc, promise, trace, mustMiss>>

\* One tick of time passes while timers are pending.
Tick ==
  /\ \E c \in CallIds :
       timerState[c] = "scheduled"
         /\ (remaining[c] > 0 \/ waited[c] < config[c].debounce)
  /\ remaining' = [c \in CallIds |-> IF remaining[c] > 0 THEN remaining[c] - 1 ELSE 0]
  /\ waited' = [c \in CallIds |->
                  IF timerState[c] = "scheduled" /\ waited[c] < config[c].debounce
                    THEN waited[c] + 1 ELSE waited[c]]
  /\ UNCHANGED <<cache, timers, timerState, config, pc, promise, trace, cancelReq,
                 mustMiss>>

\* ------------------------------------------------------- specifications
Urls == {"/a", "/b"}
Delays == {1, 2}

\* Calls of the cache runs: with and without cache, under two derived keys,
\* with an explicit key that equals a derived one, and with a
\* responseInterceptor that returns undefined.
CacheConfigs ==
  {RequestConfig("", "/a", "", ca, 0, NoInterceptors) : ca \in BOOLEAN}
  \cup {RequestConfig("", "/b", "", TRUE, 0, NoInterceptors),
        RequestConfig("", "/a", "", TRUE, 0,
                      [NoInterceptors EXCEPT !.responseInterceptor = "undefined"]),
        RequestConfig("POST", "/c", "GET:/a:{}:{}", TRUE, 0, NoInterceptors)}

CacheKeys == {EffectiveKey(cfg) : cfg \in CacheConfigs}

NextCache ==
  \/ \E cfg \in CacheConfigs : request(cfg, MaxCalls)
  \/ \E c \in CallIds, data \in Datas : TransportSucceeds(c, data)
  \/ \E c \in CallIds : TransportFails(c)
  \/ \E key \in CacheKeys \cup {"", Undefined} : clearCache(key)

SpecCache == Init /\ [][NextCache]_vars

\* Calls of the debounce runs: under one key debounced with each delay and
\* immediate, under another key debounced.
DebounceConfigs ==
  {RequestConfig("", "/a", "", FALSE, d, NoInterceptors) : d \in Delays \cup {0}}
  \cup {RequestConfig("", "/b", "", FALSE, 1, NoInterceptors)}

DebounceKeys == {EffectiveKey(cfg) : cfg \in DebounceConfigs}

NextDebounce ==
  \/ \E cfg \in DebounceConfigs : request(cfg, MaxCalls)
  \/ \E c \in CallIds : TimerFire(c)
  \/ \E c \in CallIds : TransportSucceeds(c, "d1")
  \/ \E key \in DebounceKeys : clearDebounce(key)
  \/ clearAllDebounce
  \/ Tick

SpecDebounce == Init /\ [][NextDebounce]_vars

\* The event loop runs the callback of every timer whose deadline has
\* passed, and time does not stop.
FairSpecDebounce ==
  /\ SpecDebounce
  /\ WF_vars(Tick)
  /\ \A c \in CallIds : WF_vars(TimerFire(c))

\* Calls of the interceptor runs: a requestInterceptor that throws with each
\* requestInterceptorCatch; each responseInterceptor with each
\* responseInterceptorCatch; a requestInterceptor that returns.
IcptConfigs ==
  {RequestConfig("", "/a", "", FALSE, 0,
                 [NoInterceptors EXCEPT !.requestInterceptor = "throws",
                                        !.requestInterceptorCatch = h]) :
     h \in HandlerKinds \cup {"absent"}}
  \cup
  {RequestConfig("", "/a", "", FALSE, 0,
                 [NoInterceptors EXCEPT !.responseInterceptor = ri,
                                        !.responseInterceptorCatch = h]) :
     ri \in {"absent", "maps", "throws"}, h \in HandlerKinds \cup {"absent"}}
  \cup
  {RequestConfig("", "/a", "", FALSE, 0,
                 [NoInterceptors EXCEPT !.requestInterceptor = "returns",
                                        !.requestInterceptorCatch = "returns"])}

NextIcpt ==
  \/ \E cfg \in IcptConfigs : request(cfg, MaxIcptCalls)
  \/ \E c \in CallIds, data \in Datas : TransportSucceeds(c, data)
  \/ \E c \in CallIds : TransportFails(c)

SpecIcpt == Init /\ [][NextIcpt]_vars

\* Calls of the mixed runs, all with cache enabled: immediate and debounced
\* under one key, debounced with a responseInterceptor under another key,
\* with a requestInterceptor that throws, and with a responseInterceptor
\* that throws into a handler that throws.
MixedConfigs ==
  {RequestConfig("", "/a", "", TRUE, d, NoInterceptors) : d \in {0, 1}}
  \cup {RequestConfig("", "/b", "", TRUE, 1,
                      [NoInterceptors EXCEPT !.responseInterceptor = "maps"]),
        RequestConfig("", "/a", "", TRUE, 0,
                      [NoInterceptors EXCEPT !.requestInterceptor = "throws",
                                             !.requestInterceptorCatch = "returns"]),
        RequestConfig("", "/a", "", TRUE, 0,
                      [NoInterceptors EXCEPT !.responseInterceptor = "throws",
                                             !.responseInterceptorCatch = "throws"])}

MixedKeys == {EffectiveKey(cfg) : cfg \in MixedConfigs}

NextMixed ==
  \/ \E cfg \in MixedConfigs : request(cfg, MaxMixedCalls)
  \/ \E c \in CallIds : TimerFire(c)
  \/ \E c \in CallIds : TransportSucceeds(c, "d1")
  \/ \E c \in CallIds : TransportFails(c)
  \/ \E key \in MixedKeys \cup {"", Undefined} : clearCache(key)
  \/ \E key \in MixedKeys : clearDebounce(key)
  \/ clearAllDebounce
  \/ Tick

SpecMixed == Init /\ [][NextMixed]_vars

\* The event loop runs the callback of every expired timer, time does not
\* stop, and the transport settles every call it was handed.
FairSpecMixed ==
  /\ SpecMixed
  /\ WF_vars(Tick)
  /\ \A c \in CallIds : WF_vars(TimerFire(c))
  /\ \A c \in CallIds : WF_vars(TransportSucceeds(c, "d1") \/ TransportFails(c))

\* Calls with cache enabled over every combination of method, URL, params
\* and data.
KeyMethods == {"", "GET", "POST"}
KeyUrls == {"", "/a"}
KeyParams == {Undefined, "{}", "{q:'1'}"}
KeyDatas == {Undefined, "0", "{a:'1'}"}

KeyConfigs ==
  {[RequestConfig(m, u, "", TRUE, 0, NoInterceptors) EXCEPT !.params = p, !.data = d] :
     m \in KeyMethods, u \in KeyUrls, p \in KeyParams, d \in KeyDatas}

NextKey ==
  \/ \E cfg \in KeyConfigs : request(cfg, MaxMixedCalls)
  \/ \E c \in CallIds : TransportSucceeds(c, "d1")

SpecKey == Init /\ [][NextKey]_vars

\* Calls made through the shortcuts, with cache enabled, with and without a
\* debounce, from configs that carry no method or a method of their own.
ShortcutConfigs ==
  {RequestConfig(m, "/a", "", TRUE, d, NoInterceptors) : m \in {"", "PUT"}, d \in {0, 1}}

NextShortcut ==
  \/ \E cfg \in ShortcutConfigs : get(cfg, MaxMixedCalls)
  \/ \E cfg \in ShortcutConfigs : post(cfg, MaxMixedCalls)
  \/ \E cfg \in ShortcutConfigs : put(cfg, MaxMixedCalls)
  \/ \E cfg \in ShortcutConfigs : delete(cfg, MaxMixedCalls)
  \/ \E cfg \in ShortcutConfigs : patch(cfg, MaxMixedCalls)
  \/ \E c \in CallIds : TimerFire(c)
  \/ \E c \in CallIds : TransportSucceeds(c, "d1")
  \/ Tick

SpecShortcut == Init /\ [][NextShortcut]_vars

\* ------------------------------------------------------- debounce claims
Dispatched(c) == \E i \in DOMAIN trace[c] : trace[c][i].op = "instance.request"

Untouched(c) ==
  /\ pc[c] = "debouncing"
  /\ timerState[c] # "fired"
  /\ promise[c] = Pending
  /\ trace[c] = <<>>

\* C2: a debounced call whose timer was pending when a later debounced call
\* was registered under the same effective key is never dispatched (it never
\* reaches the transport) and its promise stays pending for ever.
C2_SupersededNeverRuns ==
  \A c \in CallIds : cancelReq[c] = "request" => Untouched(c) /\ ~Dispatched(c)

\* C2 witness: a call was superseded and the call that superseded it under
\* the same key was dispatched and has settled.
C2_Witness ==
  \E c1, c2 \in CallIds :
    /\ c1 < c2
    /\ cancelReq[c1] = "request"
    /\ EffectiveKey(config[c1]) = EffectiveKey(config[c2])
    /\ timerState[c2] = "fired"
    /\ Dispatched(c2)
    /\ pc[c2] = "done"

\* Part of C3: no two pending timers are registered under one key.
C3_AtMostOne ==
  \A c1, c2 \in CallIds :
    (/\ timerState[c1] = "scheduled"
     /\ timerState[c2] = "scheduled"
     /\ EffectiveKey(config[c1]) = EffectiveKey(config[c2])) => c1 = c2

\* Part of C3: the step that registers call c cancels what was pending under
\* its key.
C3_CancelsInSameStep ==
  \A c \in CallIds :
    (timerState[c] = "none" /\ timerState'[c] = "scheduled") =>
      \A o \in PendingUnder(EffectiveKey(config'[c])) : timerState'[o] = "cancelled"

\* C3: in every state, every key has at most one pending timer; and the step
\* that registers a debounced call under a key cancels the timer that was
\* pending under that key.
C3_OnePendingTimerPerKey == []C3_AtMostOne /\ [][C3_CancelsInSameStep]_vars

\* C3 witness: a timer is pending under a key under which an earlier timer
\* was cancelled by the registration.
C3_Witness ==
  \E c1, c2 \in CallIds :
    /\ c1 < c2
    /\ EffectiveKey(config[c1]) = EffectiveKey(config[c2])
    /\ timerState[c1] = "cancelled"
    /\ cancelReq[c1] = "request"
    /\ timerState[c2] = "scheduled"

\* Part of C4: a timer fires only for a call that no later registration has
\* superseded, no earlier than its delay after the call was registered, and
\* its call goes to the transport.
C4_FiresLastAfterDelay ==
  \A c \in CallIds :
    (timerState[c] = "scheduled" /\ timerState'[c] = "fired") =>
      /\ cancelReq[c] = "none"
      /\ waited[c] >= config[c].debounce
      /\ Dispatched(c)'

\* Part of C4: the call of a pending timer that nothing supersedes or clears
\* is dispatched.
C4_LastIsDispatched ==
  \A c \in CallIds :
    (timerState[c] = "scheduled") ~> (Dispatched(c) \/ cancelReq[c] # "none")

\* C4: of debounced calls registered under one key, each while the timer of
\* the one before was pending, exactly one is dispatched, the last: a timer
\* fires only for a call no later registration has superseded, no earlier
\* than its delay after the call was registered, and the last call, which
\* nothing supersedes, is dispatched.
C4_ExactlyTheLastDispatch ==
  /\ [][C4_FiresLastAfterDelay]_vars
  /\ C4_LastIsDispatched

\* C4 witness: three calls under one key, each registered while the one
\* before was pending; the first two superseded, the third dispatched.
C4_Witness ==
  \E c1, c2, c3 \in CallIds :
    /\ c1 < c2 /\ c2 < c3
    /\ EffectiveKey(config[c1]) = EffectiveKey(config[c2])
    /\ EffectiveKey(config[c2]) = EffectiveKey(config[c3])
    /\ cancelReq[c1] = "request" /\ cancelReq[c2] = "request"
    /\ ~Dispatched(c1) /\ ~Dispatched(c2)
    /\ timerState[c3] = "fired" /\ Dispatched(c3)

\* C5: a call whose timer was pending when clearDebounce(its key) or
\* clearAllDebounce() was called is never dispatched and its promise stays
\* pending for ever.
C5_ClearedNeverRuns ==
  \A c \in CallIds :
    cancelReq[c] = "clear" =>
      timerState[c] = "cancelled" /\ Untouched(c) /\ ~Dispatched(c)

\* C5 witness: one call cleared by clearDebounce(key) while another key kept
\* its pending call, or two calls cleared at once by clearAllDebounce().
C5_Witness ==
  \E c1, c2 \in CallIds :
    /\ c1 # c2
    /\ cancelReq[c1] = "clear"
    /\ EffectiveKey(config[c1]) # EffectiveKey(config[c2])
    /\ cancelReq[c2] = "clear" \/ timerState[c2] = "fired"

\* ------------------------------------------------------- interceptor claims
Ran(c, op, arg) == \E i \in DOMAIN trace[c] : trace[c][i] = Ev(op, arg)

RanOp(c, op) == \E i \in DOMAIN trace[c] : trace[c][i].op = op

\* C6: when the requestInterceptor of a call throws E, the transport is not
\* invoked, a requestInterceptorCatch that is present is invoked with E,
\* and unless that handler throws the call rejects with E itself.
C6_RequestTransformRejectsWithOriginal ==
  \A c \in CallIds :
    LET i == config[c].interceptors
    IN (pc[c] # "unissued" /\ i.requestInterceptor = "throws") =>
         /\ ~Dispatched(c)
         /\ pc[c] = "done"
         /\ i.requestInterceptorCatch # "absent" =>
              Ran(c, "requestInterceptorCatch", RequestThrown)
         /\ (i.requestInterceptorCatch = "absent"
               \/ ~Handler(i.requestInterceptorCatch, RequestThrown).thrown) =>
              promise[c] = Rejected(RequestThrown)

\* C6 witness: a requestInterceptor threw, the handler returned another
\* value, and the call is rejected with what the interceptor threw.
C6_Witness ==
  \E c \in CallIds :
    /\ config[c].interceptors.requestInterceptor = "throws"
    /\ config[c].interceptors.requestInterceptorCatch = "returns"
    /\ Ran(c, "requestInterceptorCatch", RequestThrown)
    /\ promise[c] = Rejected(RequestThrown)

\* C7: when the transport succeeds, the responseInterceptor throws and the
\* responseInterceptorCatch returns a value V, the call rejects with V.
C7_ResponseTransformRejectsWithHandlerValue ==
  \A c \in CallIds :
    LET i == config[c].interceptors
    IN (/\ pc[c] = "done"
        /\ RanOp(c, "transport.fulfilled")
        /\ i.responseInterceptor = "throws"
        /\ i.responseInterceptorCatch # "absent"
        /\ ~Handler(i.responseInterceptorCatch, ResponseThrown).thrown) =>
         promise[c] = Rejected(Handler(i.responseInterceptorCatch, ResponseThrown).val)

\* C8: when the transport fails with E, the call never resolves: with a
\* responseInterceptorCatch, the handler is invoked with E and the call
\* rejects with the value it returns; without one, the call rejects with E.
C8_TransportFailureRejects ==
  \A c \in CallIds :
    LET i == config[c].interceptors
        h == Handler(i.responseInterceptorCatch, TransportError)
    IN (pc[c] = "done" /\ Ran(c, "transport.rejected", TransportError)) =>
         /\ promise[c].state = "rejected"
         /\ i.responseInterceptorCatch = "absent" => promise[c] = Rejected(TransportError)
         /\ i.responseInterceptorCatch # "absent" =>
              /\ Ran(c, "responseInterceptorCatch", TransportError)
              /\ ~h.thrown => promise[c] = Rejected(h.val)

\* C8 witness: the transport failed, the handler returned a value of its
\* own, and the call is rejected with that value.
C8_Witness ==
  \E c \in CallIds :
    /\ Ran(c, "transport.rejected", TransportError)
    /\ config[c].interceptors.responseInterceptorCatch = "returns"
    /\ Ran(c, "responseInterceptorCatch", TransportError)
    /\ promise[c] = Rejected(HandlerReturn)

\* C9: whenever an error handler of a call throws H while it handles another
\* error, on any of the three paths, the call rejects with H.
C9_HandlerThrowSupersedes ==
  \A c \in CallIds :
    LET i == config[c].interceptors
    IN pc[c] = "done" =>
         \A n \in DOMAIN trace[c] :
           LET e == trace[c][n]
               kind == IF e.op = "requestInterceptorCatch"
                         THEN i.requestInterceptorCatch
                         ELSE i.responseInterceptorCatch
           IN (/\ e.op \in {"requestInterceptorCatch", "responseInterceptorCatch"}
               /\ Handler(kind, e.arg).thrown) =>
                promise[c] = Rejected(Handler(kind, e.arg).val)

\* ------------------------------------------------------- cache claims
\* The step in which call c is made.
Issues(c) == pc[c] = "unissued" /\ pc'[c] # "unissued"

\* C1: whenever request(config) is called with cache enabled while the cache
\* has an entry for the effective key, whatever the value stored, the call
\* resolves with that value, and neither the transport nor an interceptor
\* runs for it.
C1_EntryIsServed ==
  [][\A c \in CallIds :
       LET cacheKey == EffectiveKey(config'[c])
       IN (Issues(c) /\ config'[c].cache /\ CacheManager_has(cache, cacheKey)) =>
            /\ pc'[c] = "done"
            /\ promise'[c] = Fulfilled(cache[cacheKey])
            /\ trace'[c] = <<>>]_vars

\* C10: after clearCache() without a key the cache has no entry, and the
\* next call with cache enabled for a key that was cached before the clear
\* is not served from the cache but goes to the transport, whatever calls
\* were in flight at the time of the clear.
C10_ClearedKeyGoesToTransport ==
  [][/\ (mustMiss \subseteq mustMiss' /\ mustMiss' # mustMiss) => DOMAIN cache' = {}
     /\ \A c \in CallIds :
          (Issues(c) /\ config'[c].cache /\ EffectiveKey(config'[c]) \in mustMiss) =>
            /\ pc'[c] = "transport"
            /\ Dispatched(c)']_vars

\* ------------------------------------------------------- activity indicator
\* Where op ran in the dispatch of call c.
At(c, op) == {i \in DOMAIN trace[c] : trace[c][i].op = op}

Settlements(c) == At(c, "transport.fulfilled") \cup At(c, "transport.rejected")

\* C11: NProgress.start() is called exactly once for each transport dispatch,
\* right when the call is handed to the transport and before the transport
\* settles, and NProgress.done() exactly once for each settlement of the
\* transport, success or failure, right after it; a call that never reaches
\* the transport (answered from the cache, superseded or cancelled while
\* debouncing, rejected by its requestInterceptor) causes neither.
C11_StartAndDoneBracketTransport ==
  \A c \in CallIds :
    /\ Cardinality(At(c, "NProgress.start")) = Cardinality(At(c, "instance.request"))
    /\ Cardinality(At(c, "instance.request")) = (IF pc[c] = "transport" \/ Settlements(c) # {}
                                                  THEN 1 ELSE 0)
    /\ \A i \in At(c, "instance.request") : i + 1 \in At(c, "NProgress.start")
    /\ Cardinality(At(c, "NProgress.done")) = Cardinality(Settlements(c))
    /\ Cardinality(Settlements(c)) = (IF pc[c] = "done" /\ Dispatched(c) THEN 1 ELSE 0)
    /\ \A i \in Settlements(c) :
         /\ i + 1 \in At(c, "NProgress.done")
         /\ \A j \in At(c, "NProgress.start") : j < i
    /\ (pc[c] = "done" /\ trace[c] = <<>>) \/ cancelReq[c] # "none"
         \/ config[c].interceptors.requestInterceptor = "throws"
       => At(c, "NProgress.start") = {} /\ At(c, "NProgress.done") = {}

\* C11 witness: one call went through the transport with one start() and one
\* done(), a second was answered from the cache with neither.
C11_Witness ==
  \E c, o \in CallIds :
    /\ pc[c] = "done" /\ Cardinality(At(c, "NProgress.start")) = 1
    /\ Cardinality(At(c, "NProgress.done")) = 1
    /\ pc[o] = "done" /\ promise[o].state = "fulfilled" /\ trace[o] = <<>>

\* ------------------------------------------------------- settlement
Settled(c) == promise[c].state # "pending"

\* Something failed in the dispatch of c: its requestInterceptor threw, the
\* transport rejected, or its responseInterceptor threw.
Failed(c) ==
  \/ RanOp(c, "requestInterceptor") /\ config[c].interceptors.requestInterceptor = "throws"
  \/ RanOp(c, "transport.rejected")
  \/ RanOp(c, "responseInterceptor") /\ config[c].interceptors.responseInterceptor = "throws"

\* Part of C12: a settled promise never changes again.
C12_SettlesOnce ==
  \A c \in CallIds : Settled(c) => promise'[c] = promise[c]

\* Part of C12: a call resolves only from the cache or after the transport
\* succeeded with no interceptor throwing, and every failure has rejected it.
C12_OutcomeFollowsFailure ==
  \A c \in CallIds :
    /\ promise[c].state = "fulfilled" =>
         /\ ~Failed(c)
         /\ trace[c] = <<>> \/ RanOp(c, "transport.fulfilled")
    /\ Failed(c) => promise[c].state = "rejected"

\* C12: every call that is not superseded or cancelled while its debounce
\* timer is pending eventually settles, given that timers fire and the
\* transport settles what it is handed; it settles once, it resolves only if
\* the transport succeeded and no interceptor threw, and every failure
\* (requestInterceptor, transport, responseInterceptor, error handler) ends
\* in a rejected promise.
C12_EveryCallSettlesOnce ==
  /\ \A c \in CallIds : pc[c] # "unissued" ~> (Settled(c) \/ cancelReq[c] # "none")
  /\ [][C12_SettlesOnce]_vars
  /\ []C12_OutcomeFollowsFailure

\* C12 witness: a debounced call ran after its delay and was rejected by the
\* failure of its transport call, and another call has resolved through the
\* transport.
C12_Witness ==
  \E c, o \in CallIds :
    /\ timerState[c] = "fired" /\ RanOp(c, "transport.rejected")
    /\ promise[c] = Rejected(TransportError)
    /\ promise[o].state = "fulfilled" /\ RanOp(o, "transport.fulfilled")

\* ------------------------------------------------------- calls in flight
\* Part of C13: no step takes a call away from the transport other than the
\* settlement of its transport call, which settles its promise with that
\* outcome and, with cache enabled and on success, writes what it resolved
\* with under its key.
C13_OnlyTransportEndsDispatch ==
  \A c \in CallIds : pc[c] = "transport" =>
    /\ config'[c] = config[c]
    /\ timerState'[c] = timerState[c]
    /\ \/ pc'[c] = "transport" /\ promise'[c] = promise[c] /\ trace'[c] = trace[c]
       \/ /\ pc'[c] = "done"
          /\ \/ TransportFails(c) /\ promise'[c].state = "rejected"
             \/ TransportSucceeds(c, "d1")
          /\ promise'[c].state = "fulfilled" /\ config[c].cache =>
               /\ EffectiveKey(config[c]) \in DOMAIN cache'
               /\ cache'[EffectiveKey(config[c])] = promise'[c].value

\* C13: once the dispatch of a call has started, no later debounced call
\* under the same key, no clearDebounce(key) and no clearAllDebounce() aborts
\* it: it stays with the transport until the transport settles, then settles
\* with that outcome and, with cache enabled and on success, writes the cache.
C13_DispatchIsNotAborted ==
  /\ [][C13_OnlyTransportEndsDispatch]_vars
  /\ \A c \in CallIds : pc[c] = "transport" ~> (pc[c] = "done" /\ Settled(c))

\* C13 witness: a debounced call was dispatched, a later call registered a
\* debounce under the same key while it was in flight (with an entry in the
\* cache the later call would have been served from it), and the earlier
\* call has resolved and written the cache.
C13_Witness ==
  \E c, o \in CallIds :
    /\ c < o /\ EffectiveKey(config[o]) = EffectiveKey(config[c])
    /\ timerState[c] = "fired" /\ pc[c] = "done" /\ RanOp(c, "transport.fulfilled")
    /\ promise[c].state = "fulfilled"
    /\ CacheManager_get(cache, EffectiveKey(config[c])) = promise[c].value
    /\ pc[o] = "debouncing" /\ config[o].debounce # 0

\* ------------------------------------------------------- keys apart
\* The step is an operation under `key`: a request whose effective key it
\* is (with the dispatch and the settlement that follow), clearDebounce(key)
\* or clearCache(key).
StepUnder(key) ==
  \/ \E cfg \in MixedConfigs : EffectiveKey(cfg) = key /\ request(cfg, MaxMixedCalls)
  \/ \E c \in CallIds :
       /\ EffectiveKey(config[c]) = key
       /\ TimerFire(c) \/ TransportSucceeds(c, "d1") \/ TransportFails(c)
  \/ clearDebounce(key)
  \/ clearCache(key)

\* A step leaves the pending timers and the cache entry of `key` as they are.
KeyUntouched(key) ==
  /\ \A c \in PendingUnder(key) :
       /\ timerState'[c] = "scheduled"
       /\ remaining'[c] = remaining[c]
       /\ cancelReq'[c] = cancelReq[c]
       /\ pc'[c] = pc[c]
  /\ CacheManager_has(cache', key) = CacheManager_has(cache, key)
  /\ CacheManager_get(cache', key) = CacheManager_get(cache, key)

\* C14: calls with different effective keys do not affect each other: a
\* request, a debounce registration, a dispatch or clearDebounce under a key
\* K2 never cancels or delays the pending debounced call of a key K1 # K2,
\* and a cache write or clearCache(K2) never changes the cache entry of K1.
C14_KeysAreIndependent ==
  [][\A K1, K2 \in MixedKeys : K1 # K2 /\ StepUnder(K2) => KeyUntouched(K1)]_vars

\* C14 witness: the debounced call of one key is still pending, untouched,
\* after a later call under another key registered its own debounce, and the
\* cache holds an entry under one key and none under the other.
C14_Witness ==
  \E c, o \in CallIds :
    /\ c < o /\ EffectiveKey(config[c]) # EffectiveKey(config[o])
    /\ timerState[c] = "scheduled" /\ cancelReq[c] = "none"
    /\ config[o].debounce # 0 /\ timerState[o] = "fired" /\ pc[o] = "done"
    /\ CacheManager_has(cache, EffectiveKey(config[o]))
    /\ ~CacheManager_has(cache, EffectiveKey(config[c]))

\* ------------------------------------------------------- shortcuts
\* A step is the shortcut call m(cfg) exactly when it is the call
\* request(cfg with its method set to M).
ShortcutIsRequest(cfg) ==
  LET n == MaxMixedCalls
      With(M) == RequestConfig(M, cfg.url, cfg.cacheKey, cfg.cache, cfg.debounce,
                               cfg.interceptors)
  IN /\ get(cfg, n) <=> request(With("GET"), n)
     /\ post(cfg, n) <=> request(With("POST"), n)
     /\ put(cfg, n) <=> request(With("PUT"), n)
     /\ delete(cfg, n) <=> request(With("DELETE"), n)
     /\ patch(cfg, n) <=> request(With("PATCH"), n)

\* C15: for every config c and every shortcut m of get, post, put, delete,
\* patch, the call m(c) behaves exactly as request(c with its method set to
\* the method of the shortcut), whatever method c carried: the same key, the
\* same cache lookup, the same debounce registration, the same dispatch.
C15_ShortcutsAreRequests ==
  [][\A cfg \in ShortcutConfigs : ShortcutIsRequest(cfg)]_vars

\* C15 witness: a config that carries the method PUT went through delete()
\* and through post(); the first was dispatched as DELETE and cached under
\* the DELETE key, the second waits for its debounce timer under the POST key.
C15_Witness ==
  \E c, o \in CallIds :
    /\ config[c].method = "DELETE" /\ pc[c] = "done"
    /\ CacheManager_has(cache, "DELETE:/a:{}:{}")
    /\ config[o].method = "POST" /\ pc[o] = "debouncing"
    /\ "POST:/a:{}:{}" \in DOMAIN timers
    /\ ~CacheManager_has(cache, "PUT:/a:{}:{}")

\* ------------------------------------------------------- key derivation
\* The four fields the key is derived from, as the claim reads them: an
\* absent method is GET, an absent URL the empty string, absent params or
\* data an empty mapping.
KeyFields(cfg) ==
  <<IF cfg.method = "" THEN "GET" ELSE cfg.method,
    cfg.url,
    IF cfg.params = Undefined THEN "{}" ELSE cfg.params,
    IF cfg.data = Undefined THEN "{}" ELSE cfg.data>>

\* Part of C16: configs that agree in the four fields have the same key.
C16_SameFieldsSameKey ==
  \A c, o \in CallIds :
    pc[c] # "unissued" /\ pc[o] # "unissued"
      /\ KeyFields(config[c]) = KeyFields(config[o])
    => generateCacheKey(config[c]) = generateCacheKey(config[o])

\* C16: the derived key is a function of method, URL, params and data only:
\* two configs that agree in those four fields get the same key, and two
\* configs that differ in any one of them get different keys.
C16_KeyIsInjective ==
  \A c, o \in CallIds :
    pc[c] # "unissued" /\ pc[o] # "unissued" =>
      ((KeyFields(config[c]) = KeyFields(config[o]))
         <=> (generateCacheKey(config[c]) = generateCacheKey(config[o])))

\* ------------------------------------------------------- clearCache
\* C17: for every string key K, clearCache(K) removes the entry of K if
\* there is one and leaves every other entry as it is, so that only
\* clearCache() without a key removes all entries; neither form touches a
\* pending debounce timer.
C17_ClearCacheRemovesOnlyItsKey ==
  [][/\ \A K \in MixedKeys \cup {""} :
          clearCache(K) => cache' = CacheManager_delete(cache, K)
     /\ \A K \in MixedKeys \cup {"", Undefined} :
          clearCache(K) => UNCHANGED <<timers, timerState, remaining>>]_vars

\* ------------------------------------------------------- cache writes
\* The step settles the dispatch of call c.
Settles(c) == pc[c] = "transport" /\ pc'[c] = "done"

\* What the caller's responseInterceptor, if any, makes of the response.
Processed(cfg, response) ==
  IF cfg.interceptors.responseInterceptor = "absent"
    THEN response
    ELSE Transform(cfg.interceptors.responseInterceptor, response)

\* C18: the cache is written only by a dispatch that succeeds end to end with
\* cache enabled, and what is written is the final response, after the
\* interceptors, under the effective key of the call; a dispatch that ends
\* in rejection leaves the cache exactly as it was.
C18_CacheWrittenOnlyOnSuccess ==
  [][/\ cache' # cache =>
          \/ \E K \in MixedKeys \cup {"", Undefined} : clearCache(K)
          \/ \E c \in CallIds :
               Settles(c) /\ config[c].cache /\ promise'[c].state = "fulfilled"
     /\ \A c \in CallIds :
          /\ Settles(c) /\ config[c].cache /\ promise'[c].state = "fulfilled" =>
               /\ cache' = CacheManager_set(cache, EffectiveKey(config[c]),
                                            promise'[c].value)
               /\ promise'[c].value = Processed(config[c], "d1")
          /\ pc[c] # "done" /\ pc'[c] = "done" /\ promise'[c].state = "rejected" =>
               cache' = cache]_vars

\* C18 witness: a call with a responseInterceptor resolved and the cache
\* holds what the interceptor returned under its key, and a call whose
\* responseInterceptor threw was rejected and left no entry under its key.
C18_Witness ==
  \E c, o \in CallIds :
    /\ config[c].interceptors.responseInterceptor = "maps"
    /\ promise[c] = Fulfilled("m1")
    /\ CacheManager_get(cache, EffectiveKey(config[c])) = "m1"
    /\ config[o].interceptors.responseInterceptor = "throws"
    /\ RanOp(o, "transport.fulfilled") /\ promise[o].state = "rejected"
    /\ ~CacheManager_has(cache, EffectiveKey(config[o]))

\* ------------------------------------------------------- interceptor calls
InterceptorOps ==
  {"requestInterceptor", "requestInterceptorCatch",
   "responseInterceptor", "responseInterceptorCatch"}

\* C19: within one dispatch each interceptor of the call is invoked at most
\* once; in particular responseInterceptorCatch is invoked at most once for
\* a call, whether the failure came from the transport or from the
\* responseInterceptor and whether or not the handler itself throws.
C19_InterceptorsRunAtMostOnce ==
  \A c \in CallIds : \A op \in InterceptorOps : Cardinality(At(c, op)) <= 1

\* ------------------------------------------------------- cache flag off
\* C20: a call whose cache flag is not enabled never reads or changes the
\* cache: it goes to the transport (directly or after its debounce delay)
\* even when the cache has an entry for its key, and no step of the call,
\* from the request to its settlement, changes the cache.
C20_NoCacheFlagNoCacheUse ==
  [][\A c \in CallIds :
       /\ Issues(c) /\ ~config'[c].cache =>
            /\ pc'[c] \in {"transport", "debouncing"}
            /\ pc'[c] = "transport" => Dispatched(c)'
            /\ promise'[c] = Pending
            /\ cache' = cache
       /\ ~config[c].cache /\ pc[c] \in {"transport", "debouncing"} /\ pc'[c] # pc[c] =>
            /\ cache' = cache
            /\ pc'[c] = "done" =>
                 \E i \in DOMAIN trace'[c] :
                   \/ trace'[c][i] = Ev("transport.fulfilled", promise'[c].value)
                   \/ trace'[c][i] = Ev("transport.rejected", promise'[c].value)]_vars

\* C20 witness: a call resolved and was cached, a second call with the cache
\* flag was answered from that entry, and a third call under the same key
\* without the flag went to the transport all the same and resolved with
\* another answer, the entry still holding the first.
C20_Witness ==
  \E a, o, c \in CallIds :
    /\ a < o /\ o < c
    /\ EffectiveKey(config[a]) = EffectiveKey(config[c])
    /\ EffectiveKey(config[o]) = EffectiveKey(config[c])
    /\ config[a].cache /\ promise[a] = Fulfilled("d1") /\ RanOp(a, "transport.fulfilled")
    /\ config[o].cache /\ promise[o] = Fulfilled("d1") /\ trace[o] = <<>>
    /\ ~config[c].cache /\ pc[c] = "done" /\ promise[c] = Fulfilled("d2")
    /\ Ran(c, "transport.fulfilled", "d2")
    /\ CacheManager_get(cache, EffectiveKey(config[c])) = "d1"

====
